---- MODULE Spec2Model ----
(***************************************************************************)
(* The Pet REST service of server.py: the pets table (SQLite, reached      *)
(* through Flask-SQLAlchemy), the Pet model's serialize/deserialize, and   *)
(* the five /pets request handlers.  One action per request; each action   *)
(* runs the whole handler, its commit (or the discarding of the request's  *)
(* session when the handler raises) included.                              *)
(***************************************************************************)
EXTENDS Integers, FiniteSets, Sequences, TLC

\* Bound: the table holds ids up to MaxPets (a create needs a free id <= it).
MaxPets == 2

\* Request inputs are drawn from these sets.
Names == {"fido", "kitty"}
Categories == {"dog", "do"}
QueryValues == {"", "do", "dog", "cat"}
BodyIds == {2}
Availables == {TRUE}
PathIds == 1 .. MaxPets

VARIABLES
    store,      \* the pets table: id -> row [id, name, category]
    last,       \* the last request and its response
    issued,     \* history: every id a 201 response has carried
    live,       \* history: ids returned by a 201 and not DELETEd since
    supplied    \* history: id -> [name, category] sent in the POST that
                \* created it, while no PUT succeeded on it and no DELETE hit it

vars == <<store, last, issued, live, supplied>>

----------------------------------------------------------------------------
\* JSON request bodies: request.get_json() yields a mapping, a string or None.

Max(S) == CHOOSE m \in S : \A x \in S : x <= m

Restrict(f, K) == [k \in K |-> f[k]]

FullObjects ==
    { [id |-> i, name |-> n, category |-> c, available |-> a] :
        i \in BodyIds, n \in Names, c \in Categories, a \in Availables }

\* A body carries any subset of name and category; the complete body and
\* the one lacking name also come with the id and available keys, as in
\* test_deserialize_a_pet and test_deserialize_with_no_name.
KeySets == (SUBSET {"name", "category"})
               \cup { {"id", "name", "category", "available"},
                      {"id", "category", "available"} }

Objects == { Restrict(f, K) : f \in FullObjects, K \in KeySets }

Bodies ==
    { [kind |-> "object", value |-> o] : o \in Objects }
        \cup { [kind |-> "string"], [kind |-> "null"] }

\* request.args: with or without the category parameter.
QueryArgs == { [category |-> c] : c \in QueryValues } \cup { [k \in {} |-> ""] }

----------------------------------------------------------------------------
\* The Pet model.

\* Pet(): a transient object; attributes not yet set are absent (None).
NewPet == [k \in {} |-> ""]

SetAttr(pet, k, v) == (k :> v) @@ pet

serialize(pet) == [id |-> pet.id, name |-> pet.name, category |-> pet.category]

\* Variant: deserialize also takes the id the body carries.
deserialize_with_id(pet, data) ==
    IF data.kind # "object"
    THEN [pet |-> pet, error |-> "Invalid pet: body of request contained bad or no data"]
    ELSE IF "name" \notin DOMAIN data.value
    THEN [pet |-> pet, error |-> "Invalid pet: missing name"]
    ELSE IF "category" \notin DOMAIN data.value
    THEN [pet |-> SetAttr(pet, "name", data.value["name"]),
          error |-> "Invalid pet: missing category"]
    ELSE LET p2 == SetAttr(SetAttr(pet, "name", data.value["name"]),
                           "category", data.value["category"])
         IN [pet |-> IF "id" \in DOMAIN data.value
                     THEN SetAttr(p2, "id", data.value["id"]) ELSE p2,
             error |-> ""]

\* data['name'] then data['category']: TypeError on a non-mapping, KeyError
\* on the first missing key; an assignment made before the raise stays on
\* the object.
deserialize(pet, data) ==
    IF data.kind # "object"
    THEN [pet |-> pet, error |-> "Invalid pet: body of request contained bad or no data"]
    ELSE IF "name" \notin DOMAIN data.value
    THEN [pet |-> pet, error |-> "Invalid pet: missing name"]
    ELSE LET p1 == SetAttr(pet, "name", data.value["name"]) IN
         IF "category" \notin DOMAIN data.value
         THEN [pet |-> p1, error |-> "Invalid pet: missing category"]
         ELSE [pet |-> SetAttr(p1, "category", data.value["category"]),
               error |-> ""]

----------------------------------------------------------------------------
\* The store: table pets, id INTEGER PRIMARY KEY on SQLite.

\* Variant: the largest rowid itself is handed out again.
NextRowidNoIncrement(table) == IF DOMAIN table = {} THEN 1 ELSE Max(DOMAIN table)

\* The rowid SQLite gives an INSERT without an id: one more than the
\* largest rowid in the table, 1 on an empty table.
NextRowid(table) == IF DOMAIN table = {} THEN 1 ELSE Max(DOMAIN table) + 1

\* Pet.query.get(id)
Found(table, id) == id \in DOMAIN table

\* db.session.add(pet); db.session.commit(): INSERT, the row gets its rowid.
InsertRow(table, pet) ==
    LET id == NextRowid(table) IN (id :> SetAttr(pet, "id", id)) @@ table

\* The session's pending changes: identity id -> the modified loaded pet.
NoPending == [i \in {} |-> NewPet]

\* Variant: the UPDATE has no WHERE clause.
CommitAllRows(table, pending) ==
    IF DOMAIN pending = {} THEN table
    ELSE LET p == pending[CHOOSE i \in DOMAIN pending : TRUE]
         IN [j \in DOMAIN table |->
                [id |-> j, name |-> p.name, category |-> p.category]]

\* db.session.commit() with loaded pets dirty: UPDATE of the rows the pets
\* were loaded from, every column written from the object.
Commit(table, pending) ==
    LET dirty == { pending[i] : i \in DOMAIN pending }
        moved == { p.id : p \in dirty }
    IN [j \in (DOMAIN table \ DOMAIN pending) \cup moved |->
           IF j \in moved THEN CHOOSE p \in dirty : p.id = j ELSE table[j]]

\* Variant: the teardown commits what is pending.
shutdown_session_commit(table, pending) == Commit(table, pending)

\* End of the request: Flask-SQLAlchemy removes the request's session, which
\* rolls back whatever was not committed.
shutdown_session(table, pending) == table

\* Variant: the DELETE has no WHERE clause.
DeleteAllRows(table, id) == [i \in {} |-> NewPet]

\* db.session.delete(pet); db.session.commit()
DeleteRow(table, id) == [i \in DOMAIN table \ {id} |-> table[i]]

\* Variant: the filter matches a prefix (LIKE 'category%').
IsPrefix(x, c) == x = c \/ (x = "do" /\ c = "dog")

FilterByCategoryPrefix(table, category) ==
    { table[i] : i \in { j \in DOMAIN table : IsPrefix(category, table[j].category) } }

\* Pet.query.filter(Pet.category == category)
FilterByCategory(table, category) ==
    { table[i] : i \in { j \in DOMAIN table : table[j].category = category } }

\* Pet.query.all()
AllRows(table) == { table[i] : i \in DOMAIN table }

----------------------------------------------------------------------------
\* Error handlers.

request_validation_error(message) ==
    [status |-> 400,
     body |-> [status |-> 400, error |-> "Bad Request", message |-> message]]

not_found(id) ==
    [status |-> 404,
     body |-> [status |-> 404, error |-> "Not Found", id |-> id]]

----------------------------------------------------------------------------
\* Request handlers: the response, the table the request leaves and the
\* changes still pending in the session when the handler returns or raises.

list_pets(table, args) ==
    LET pets == IF "category" \in DOMAIN args /\ args.category # ""
                THEN FilterByCategory(table, args.category)
                ELSE AllRows(table)
    IN [resp |-> [status |-> 200, body |-> { serialize(p) : p \in pets }],
        store |-> table, pending |-> NoPending]

get_pets(table, id) ==
    IF ~Found(table, id)
    THEN [resp |-> not_found(id), store |-> table, pending |-> NoPending]
    ELSE [resp |-> [status |-> 200, body |-> serialize(table[id])],
          store |-> table, pending |-> NoPending]

\* Variant: the new pet is added and committed before the body is read.
create_pets_commit_first(table, data) ==
    LET d == deserialize(NewPet, data)
        id == NextRowid(table)
    IN IF d.error # ""
       THEN [resp |-> request_validation_error(d.error),
             store |-> InsertRow(table, [name |-> "", category |-> ""]),
             pending |-> NoPending]
       ELSE LET t2 == InsertRow(table, d.pet)
            IN [resp |-> [status |-> 201, body |-> serialize(t2[id]),
                          location |-> t2[id].id],
                store |-> t2, pending |-> NoPending]

create_pets(table, data) ==
    LET d == deserialize(NewPet, data) IN
    IF d.error # ""
    THEN [resp |-> request_validation_error(d.error),
          store |-> table, pending |-> NoPending]
    ELSE LET t2 == InsertRow(table, d.pet)
             id == NextRowid(table)
         IN [resp |-> [status |-> 201, body |-> serialize(t2[id]),
                       location |-> t2[id].id],
             store |-> t2, pending |-> NoPending]

\* Variant: the body is validated before the pet is looked up.
update_pets_validate_first(table, id, data) ==
    LET v == deserialize(NewPet, data) IN
    IF v.error # ""
    THEN [resp |-> request_validation_error(v.error),
          store |-> table, pending |-> NoPending]
    ELSE IF ~Found(table, id)
    THEN [resp |-> not_found(id), store |-> table, pending |-> NoPending]
    ELSE LET d == deserialize(table[id], data)
             t2 == Commit(table, id :> d.pet)
         IN [resp |-> [status |-> 200, body |-> serialize(t2[d.pet.id])],
             store |-> t2, pending |-> NoPending]

update_pets(table, id, data) ==
    IF ~Found(table, id)
    THEN [resp |-> not_found(id), store |-> table, pending |-> NoPending]
    ELSE LET d == deserialize(table[id], data) IN
         IF d.error # ""
         THEN [resp |-> request_validation_error(d.error),
               store |-> table, pending |-> (id :> d.pet)]
         ELSE LET t2 == Commit(table, id :> d.pet)
              IN [resp |-> [status |-> 200, body |-> serialize(t2[d.pet.id])],
                  store |-> t2, pending |-> NoPending]

\* Variant: a DELETE of an absent id is answered 404.
delete_pets_or_404(table, id) ==
    IF ~Found(table, id)
    THEN [resp |-> not_found(id), store |-> table, pending |-> NoPending]
    ELSE [resp |-> [status |-> 204, body |-> ""],
          store |-> DeleteRow(table, id), pending |-> NoPending]

delete_pets(table, id) ==
    [resp |-> [status |-> 204, body |-> ""],
     store |-> IF Found(table, id) THEN DeleteRow(table, id) ELSE table,
     pending |-> NoPending]

\* A whole request: the handler, then the teardown of its session.
Handled(r) == [resp |-> r.resp, store |-> shutdown_session(r.store, r.pending)]

----------------------------------------------------------------------------
\* The state machine: one action per request.

NoRequest == [op |-> "start", id |-> 0, again |-> FALSE]

Init ==
    /\ store = [i \in {} |-> NewPet]
    /\ last = NoRequest
    /\ issued = {}
    /\ live = {}
    /\ supplied = [i \in {} |-> NewPet]

\* again: the request repeats the method and path id of the one before it.
Again(op, id) == last.op = op /\ last.id = id

ListPets ==
    \E args \in QueryArgs :
        LET r == Handled(list_pets(store, args)) IN
        /\ store' = r.store
        /\ last' = [op |-> "LIST", id |-> 0, again |-> Again("LIST", 0),
                    args |-> args, resp |-> r.resp]
        /\ UNCHANGED <<issued, live, supplied>>

GetPets ==
    \E id \in PathIds :
        LET r == Handled(get_pets(store, id)) IN
        /\ store' = r.store
        /\ last' = [op |-> "GET", id |-> id, again |-> Again("GET", id),
                    resp |-> r.resp]
        /\ UNCHANGED <<issued, live, supplied>>

CreatePets ==
    \E data \in Bodies :
        LET r == Handled(create_pets(store, data)) IN
        /\ r.resp.status = 201 => r.resp.body.id <= MaxPets
        /\ store' = r.store
        /\ last' = [op |-> "POST", id |-> 0, again |-> Again("POST", 0),
                    data |-> data, resp |-> r.resp]
        /\ IF r.resp.status = 201
           THEN /\ issued' = issued \cup {r.resp.body.id}
                /\ live' = live \cup {r.resp.body.id}
                /\ supplied' = (r.resp.body.id :>
                                   [name |-> data.value["name"],
                                    category |-> data.value["category"]])
                               @@ supplied
           ELSE UNCHANGED <<issued, live, supplied>>

UpdatePets ==
    \E id \in PathIds, data \in Bodies :
        LET r == Handled(update_pets(store, id, data)) IN
        /\ store' = r.store
        /\ last' = [op |-> "PUT", id |-> id, again |-> Again("PUT", id),
                    data |-> data, resp |-> r.resp]
        /\ supplied' = IF r.resp.status = 200
                       THEN [i \in DOMAIN supplied \ {id} |-> supplied[i]]
                       ELSE supplied
        /\ UNCHANGED <<issued, live>>

DeletePets ==
    \E id \in PathIds :
        LET r == Handled(delete_pets(store, id)) IN
        /\ store' = r.store
        /\ last' = [op |-> "DELETE", id |-> id, again |-> Again("DELETE", id),
                    resp |-> r.resp]
        /\ live' = live \ {id}
        /\ supplied' = [i \in DOMAIN supplied \ {id} |-> supplied[i]]
        /\ UNCHANGED issued

Next ==
    \/ ListPets
    \/ GetPets
    \/ CreatePets
    \/ UpdatePets
    \/ DeletePets

Spec == Init /\ [][Next]_vars

----------------------------------------------------------------------------
\* Properties.

ValidBody(data) ==
    data.kind = "object" /\ {"name", "category"} \subseteq DOMAIN data.value

Row(id, name, category) == [id |-> id, name |-> name, category |-> category]

\* C1 as stated: a POST /pets with name and category returns 201 with a
\* positive id that no record has ever had, deleted records included.
C1_IdNeverIssuedBefore ==
    [][(last'.op = "POST" /\ ValidBody(last'.data))
         => /\ last'.resp.status = 201
            /\ last'.resp.body.id > 0
            /\ last'.resp.body.id \notin issued]_vars

\* C1 amended: a POST /pets with name and category returns 201 with a
\* positive id that no record in the store has at that time, and the new
\* record is stored under that id.
C1_IdPositiveAndFree ==
    [][(last'.op = "POST" /\ ValidBody(last'.data))
         => /\ last'.resp.status = 201
            /\ last'.resp.body.id > 0
            /\ last'.resp.body.id \notin DOMAIN store
            /\ DOMAIN store' = DOMAIN store \cup {last'.resp.body.id}]_vars

\* A 201 answered after some record was deleted.
C1_Witness ==
    /\ last.op = "POST"
    /\ last.resp.status = 201
    /\ issued \ DOMAIN store # {}

\* C2: every pet created and neither updated nor deleted since is returned
\* by GET /pets/{id} with status 200 and exactly the supplied name and
\* category plus its id.
C2_GetReturnsSupplied ==
    \A id \in DOMAIN supplied :
        LET r == Handled(get_pets(store, id)).resp IN
        /\ r.status = 200
        /\ r.body = Row(id, supplied[id].name, supplied[id].category)

\* A GET of an untouched pet after another pet was updated.
C2_Witness ==
    /\ last.op = "GET"
    /\ last.id \in DOMAIN supplied
    /\ last.resp.status = 200
    /\ DOMAIN store \ DOMAIN supplied # {}

\* C3: GET /pets/{id} answers 200 exactly for the ids created and not
\* deleted since and 404 for the others, and a record leaves the store only
\* by a DELETE on its id.
C3_ExistsUntilDeleted ==
    /\ [](\A id \in PathIds :
            LET r == Handled(get_pets(store, id)).resp IN
            /\ id \in live => r.status = 200
            /\ id \notin live => r.status = 404)
    /\ [][\A id \in DOMAIN store :
            id \notin DOMAIN store' => (last'.op = "DELETE" /\ last'.id = id)]_vars

\* A GET answered 404 for an id that was created and then deleted, while
\* another record is still there.
C3_Witness ==
    /\ last.op = "GET"
    /\ last.resp.status = 404
    /\ last.id \in issued
    /\ DOMAIN store # {}

\* What the claim C4 expects of a listing.
ExactMatches(table, args) ==
    IF "category" \in DOMAIN args
    THEN { Row(i, table[i].name, table[i].category) :
             i \in { j \in DOMAIN table : table[j].category = args.category } }
    ELSE { Row(i, table[i].name, table[i].category) : i \in DOMAIN table }

\* C4 as stated: for every value X of the category parameter the listing
\* holds only the records whose category equals X; without the parameter
\* it holds all records.
C4_FilterEveryValue ==
    last.op = "LIST" =>
        /\ last.resp.status = 200
        /\ last.resp.body = ExactMatches(store, last.args)

\* C4 amended: for every non-empty X the listing holds exactly the records
\* whose category equals X; without the parameter, or with an empty one, it
\* holds all records.
C4_FilterNonEmptyValue ==
    last.op = "LIST" =>
        /\ last.resp.status = 200
        /\ last.resp.body =
             IF "category" \in DOMAIN last.args /\ last.args.category # ""
             THEN ExactMatches(store, last.args)
             ELSE ExactMatches(store, [k \in {} |-> ""])

\* A listing by "do" of a store that holds a "do" and a "dog".
C4_Witness ==
    /\ last.op = "LIST"
    /\ "category" \in DOMAIN last.args
    /\ last.args.category = "do"
    /\ \E i, j \in DOMAIN store :
           store[i].category = "do" /\ store[j].category = "dog"
    /\ Cardinality(last.resp.body) = 1

\* C5: DELETE answers 204; on an id without a record it leaves the store
\* unchanged; repeated on the same id it answers 204 again and leaves the
\* store as the first DELETE left it.
C5_DeleteIdempotent ==
    [][last'.op = "DELETE"
         => /\ last'.resp.status = 204
            /\ last'.id \notin DOMAIN store => store' = store
            /\ last'.again => (last.resp.status = 204 /\ store' = store)]_vars

\* The second of two DELETEs in a row on an id that had a record.
C5_Witness ==
    /\ last.op = "DELETE"
    /\ last.again
    /\ last.resp.status = 204
    /\ last.id \in issued

\* C6: PUT on an id without a record answers 404 whatever the body, and
\* leaves the store unchanged.
C6_PutMissingIs404 ==
    [][(last'.op = "PUT" /\ last'.id \notin DOMAIN store)
         => (last'.resp.status = 404 /\ store' = store)]_vars

\* A PUT with a complete body answered 404 while other records exist.
C6_Witness ==
    /\ last.op = "PUT"
    /\ last.resp.status = 404
    /\ ValidBody(last.data)
    /\ DOMAIN store # {}

\* The id the next successful create receives.
NextCreatedId(table) ==
    Handled(create_pets(table,
        [kind |-> "object", value |-> [name |-> "fido", category |-> "dog"]])).resp.body.id

\* C7: POST with a body lacking name or category, or not an object, answers
\* 400, stores nothing and leaves the next created id as it was.
C7_BadPostStoresNothing ==
    [][(last'.op = "POST" /\ ~ValidBody(last'.data))
         => /\ last'.resp.status = 400
            /\ store' = store
            /\ NextCreatedId(store') = NextCreatedId(store)]_vars

\* A POST with a name and no category answered 400 on a non-empty store.
C7_Witness ==
    /\ last.op = "POST"
    /\ last.resp.status = 400
    /\ last.data.kind = "object"
    /\ "name" \in DOMAIN last.data.value
    /\ DOMAIN store # {}

\* C8: PUT on an existing id with name and category answers 200, replaces
\* the record's name and category, keeps its id whatever id the body
\* carries, and leaves every other record and the number of records alone.
C8_PutReplacesFields ==
    [][(last'.op = "PUT" /\ last'.id \in DOMAIN store /\ ValidBody(last'.data))
         => LET new == Row(last'.id, last'.data.value["name"],
                           last'.data.value["category"])
            IN /\ last'.resp.status = 200
               /\ last'.resp.body = new
               /\ store' = [store EXCEPT ![last'.id] = new]]_vars

\* A PUT answered 200 whose body carried another id, with two records.
C8_Witness ==
    /\ last.op = "PUT"
    /\ last.resp.status = 200
    /\ "id" \in DOMAIN last.data.value
    /\ last.data.value["id"] # last.id
    /\ Cardinality(DOMAIN store) = 2

\* C9 as stated: a serialized Pet includes id, name, category and available,
\* available being the value the Pet was given in the deserialized mapping.
C9_SerializeHasAvailable ==
    (last.op = "POST" /\ last.resp.status = 201)
        => /\ {"id", "name", "category", "available"} \subseteq DOMAIN last.resp.body
           /\ "available" \in DOMAIN last.data.value
                => last.resp.body["available"] = last.data.value["available"]

\* C10: PUT on an existing id with an invalid body answers 400 and leaves
\* the stored record as it was, nothing of the body reaching the store.
C10_BadPutChangesNothing ==
    [][(last'.op = "PUT" /\ last'.id \in DOMAIN store /\ ~ValidBody(last'.data))
         => (last'.resp.status = 400 /\ store' = store)]_vars

\* A PUT answered 400 whose body had another name than the record and no
\* category.
C10_Witness ==
    /\ last.op = "PUT"
    /\ last.resp.status = 400
    /\ last.data.kind = "object"
    /\ "name" \in DOMAIN last.data.value
    /\ last.id \in DOMAIN store
    /\ last.data.value["name"] # store[last.id].name

====
